---- MODULE Spec2Model ----
(***************************************************************************)
(* Model of code_macro.py: a file watcher (watchdog observer or polling    *)
(* thread) that asks a Qt object living on the main thread to re-execute  *)
(* a geometry file.                                                        *)
(*                                                                         *)
(* Time is time.time() in whole seconds.  The clock never runs backwards.  *)
(* Threads: "main" (the Qt GUI thread, which runs start/stop and the       *)
(* slots), one dispatch thread per started watchdog observer and one       *)
(* thread per DebugPollingWatcher.                                         *)
(***************************************************************************)
EXTENDS Integers, Sequences, FiniteSets

\* ---------------------------------------------------------------- bounds
MaxStarts == 2      \* calls of start_debug_watcher in SpecSessions
MaxTicks == 2       \* seconds the clock advances after process start
MaxRequests == 2    \* calls of request_reload
MaxInbox == 1       \* events waiting in one observer's event queue
MaxChanges == 2     \* writes to the watched file while it is watched
Epoch == 2          \* time.time() when the process starts (it is far above 1)

\* ------------------------------------------------------ program constants
DEBOUNCE == 1       \* if time_diff < 1
POLL_SLEEP == 1     \* time.sleep(1)
INITIAL_LAST_MODIFIED == 0   \* self.last_modified = 0

None == 0           \* Python None; also "never" in the bookkeeping of times

MainThread == "main"
Target == "target"            \* python_file_path
Other == "other"              \* any other path of the watched directory


VARIABLES
    now,              \* time.time()
    file,             \* the watched file: [exists, mtime, content (version)]
    WATCHDOG_AVAILABLE,
    observer,         \* global observer: None or an index of observers
    polling_thread,   \* global polling_thread: None or an index of pollers
    reloader,         \* global reloader: None or the number of the reloader
    observers,        \* every Observer constructed, with its DebugFileHandler
    pollers,          \* every DebugPollingWatcher constructed
    queue,            \* queued reload_signal emissions of the main thread
    frames,           \* running invocations of reload_geometry_safe (a stack)
    nSubmitted,       \* calls of request_reload so far
    delivered,        \* requests for which reload_geometry_safe has begun
    lastCall,         \* the call of start/stop that ended last, and how
    session,          \* number of start_debug_watcher calls
    changes,          \* bookkeeping of writes: [n, at, spaced]
    lastEvent,        \* bookkeeping of the step just taken: what the
                      \* handler did with the event, if it handled one
    lastPoll,         \* the same for a poll cycle
    lastHandled       \* the event the handler has just handled

vars == <<now, file, WATCHDOG_AVAILABLE, observer,
          polling_thread, reloader, observers, pollers, queue, frames,
          nSubmitted, delivered, lastCall, session,
          changes, lastEvent, lastPoll, lastHandled>>

sessionVars == <<observer, polling_thread, reloader, lastCall, session>>
reloadVars == <<queue, frames, nSubmitted, delivered>>

\* ------------------------------------------------------------- helpers
Top(s) == s[Len(s)]
Pop(s) == SubSeq(s, 1, Len(s) - 1)

\* ------------------------------------------- ThreadSafeReloader (signal)
\* reload_signal.connect(self.reload_geometry_safe): an automatic connection.
\* The emission is queued unless the emitting thread owns the receiver.
ConnectionDirect(caller) == "direct"
ConnectionType(caller) ==
    IF caller = MainThread THEN "direct" ELSE "queued"

\* Posting to the event queue of the main thread.
PostLifo(q, r) == <<r>> \o q
Post(q, r) == Append(q, r)

\* if not os.path.exists(python_file_path): return
AfterExists(exists) == IF exists THEN "read" ELSE "missing"

\* reload_geometry_safe is entered on `thread` and tests os.path.exists.
NewFrame(r, thread) ==
    [req |-> r.id, by |-> r.by, thread |-> thread,
     pc |-> AfterExists(file.exists),
     code |-> -1, exec |-> "none", doc |-> FALSE, hist |-> <<>>,
     returned |-> 0, err |-> 0]

\* request_reload(path) called on thread `caller` by a source of kind `by`.
request_reload(caller, by) ==
    LET r == [id |-> nSubmitted + 1, by |-> by] IN
    /\ nSubmitted' = nSubmitted + 1
    /\ IF ConnectionType(caller) = "queued"
         THEN /\ queue' = Post(queue, r)
              /\ UNCHANGED <<frames, delivered>>
         ELSE /\ frames' = Append(frames, NewFrame(r, caller))
              /\ delivered' = Append(delivered, r.id)
              /\ UNCHANGED queue


\* ------------------------------------------------ file-system events
ModifiedEvent(src, dir) ==
    [type |-> "modified", src_path |-> src, dest_path |-> "",
     is_directory |-> dir]
MovedEvent(src, dest, dir) ==
    [type |-> "moved", src_path |-> src, dest_path |-> dest,
     is_directory |-> dir]

\* Events that do not come from a write of the watched file.
StrayEvents ==
    {ModifiedEvent(Other, FALSE), ModifiedEvent(Target, TRUE),
     MovedEvent(Target, Other, FALSE), MovedEvent(Other, Target, TRUE)}

\* Only a directory can be moved onto the watched path without writing the
\* watched file, and only while no file is there.
Possible(event) ==
    event.type = "moved" /\ event.dest_path = Target => ~file.exists

\* --------------------------------------------------- DebugFileHandler
\* _check_if_our_file_changed: reaches _trigger_reload or returns.
OursModified(event) ==
    /\ ~event.is_directory
    /\ event.src_path = Target

\* on_moved: hasattr(event, 'dest_path') and event.dest_path == path.
OursMovedBySrc(event) == event.src_path = Target
OursMoved(event) == event.dest_path = Target

\* Which events reach _trigger_reload (on_any_event only prints).
Triggers(event) ==
    CASE event.type = "modified" -> OursModified(event)
      [] event.type = "moved" -> OursMoved(event)
      [] OTHER -> FALSE

\* _trigger_reload: the debounce test on time_diff.
TooSoonInclusive(time_diff) == time_diff <= DEBOUNCE
TooSoonNever(time_diff) == time_diff < 0
TooSoon(time_diff) == time_diff < DEBOUNCE

NewObserver(state) ==
    [state |-> state,
     last_modified |-> INITIAL_LAST_MODIFIED, inbox |-> <<>>,
     acceptedAt |-> None, lastOurAt |-> None]

Observers == 1..Len(observers)
Running(o) == observers[o].state = "running"

\* How long before `now` the time t lies, by the bookkeeping.
Since(t) ==
    IF t = None THEN "first"
    ELSE IF now - t < DEBOUNCE THEN "lt" ELSE "ge"

\* The bookkeeping of one handled event that reached _trigger_reload.
Noted(h) == [h EXCEPT !.lastOurAt = now, !.inbox = Tail(h.inbox)]
Outcome(h, outcome, reqs) ==
    [outcome |-> outcome, gap |-> Since(h.acceptedAt),
     sincePrev |-> Since(h.lastOurAt), reqs |-> reqs]
NoEvent ==
    [outcome |-> "none", gap |-> "none", sincePrev |-> "none", reqs |-> 0]

\* The step just taken was no poll cycle and handled no event.
NoPoll ==
    [outcome |-> "none", first |-> FALSE, newer |-> FALSE, reqs |-> 0,
     recorded |-> FALSE, kept |-> TRUE]
NoHandled ==
    [type |-> "none", src_path |-> "", dest_path |-> "",
     is_directory |-> FALSE, reqs |-> 0, stamped |-> FALSE]
NothingNoted ==
    lastEvent' = NoEvent /\ lastPoll' = NoPoll /\ lastHandled' = NoHandled

\* The bookkeeping of the event that observer o has just handled.
Handled(o) ==
    LET event == Head(observers[o].inbox) IN
    [type |-> event.type, src_path |-> event.src_path,
     dest_path |-> event.dest_path, is_directory |-> event.is_directory,
     reqs |-> nSubmitted' - nSubmitted,
     stamped |-> observers'[o].last_modified # observers[o].last_modified]

\* The dispatch thread of observer o hands the next event to the handler:
\* on_any_event, then on_modified or on_moved, down to _trigger_reload.
HandleEvent(o) ==
    /\ Running(o)
    /\ observers[o].inbox # <<>>
    /\ LET h == observers[o]
           event == Head(h.inbox)
           time_diff == now - h.last_modified
       IN
       IF ~Triggers(event)
         THEN /\ observers' = [observers EXCEPT ![o].inbox = Tail(h.inbox)]
              /\ lastEvent' = [NoEvent EXCEPT !.outcome = "ignored"]
              /\ UNCHANGED reloadVars
         ELSE IF TooSoon(time_diff)
           THEN /\ observers' = [observers EXCEPT ![o] = Noted(h)]
                /\ lastEvent' = Outcome(h, "debounced", 0)
                /\ UNCHANGED reloadVars
           ELSE IF reloader # None
             THEN /\ nSubmitted < MaxRequests
                  /\ observers' = [observers EXCEPT ![o] =
                         [Noted(h) EXCEPT
                              !.last_modified = now, !.acceptedAt = now]]
                  /\ request_reload("watchdog", "watchdog")
                  /\ lastEvent' =
                         Outcome(h, "accepted", nSubmitted' - nSubmitted)
             ELSE /\ observers' = [observers EXCEPT ![o] =
                         [Noted(h) EXCEPT !.last_modified = now]]
                  /\ lastEvent' = Outcome(h, "noreloader", 0)
                  /\ UNCHANGED reloadVars
    /\ UNCHANGED <<now, file, WATCHDOG_AVAILABLE, pollers, changes>>
    /\ UNCHANGED sessionVars
    /\ lastPoll' = NoPoll
    /\ lastHandled' = Handled(o)

\* ------------------------------------------------ DebugPollingWatcher
\* read: the modification time read at the previous observation, if any.
NewPoller ==
    [running |-> TRUE,
     last_modified |-> INITIAL_LAST_MODIFIED, pc |-> "while", wake |-> 0,
     read |-> <<>>]

Pollers == 1..Len(pollers)

\* if current_modified > self.last_modified
Newer(current_modified, last_modified) == current_modified > last_modified

\* if self.last_modified > 0:  # Skip first check
NotFirstCheckAlways(last_modified) == TRUE
NotFirstCheck(last_modified) == last_modified > 0

\* except Exception as e: print(...); time.sleep(1) -- and back to `while`.
AfterPollErrorEnds == "ended"
AfterPollError == "sleep"

\* reloader.request_reload(self.file_path) returns or raises.
EmitOutcomes == {"ok", "raises"}

\* The bookkeeping of one poll cycle of poller p: `observed` is the
\* modification time it read, if it read one.
Polled(p, outcome, observed) ==
    LET w == pollers[p] IN
    [outcome |-> outcome,
     first |-> observed # <<>> /\ w.read = <<>>,
     newer |-> observed # <<>> /\ w.read # <<>> /\ observed[1] > w.read[1],
     reqs |-> nSubmitted' - nSubmitted,
     recorded |-> observed # <<>> /\ pollers'[p].last_modified = observed[1],
     kept |-> pollers'[p].last_modified = w.last_modified]

\* while self.running: ... if os.path.exists(self.file_path): ...
\* else: print(...); time.sleep(1)
PollWhile(p) ==
    /\ pollers[p].pc = "while"
    /\ pollers' = [pollers EXCEPT ![p] =
            IF ~pollers[p].running
              THEN [NewPoller EXCEPT !.running = FALSE, !.pc = "ended"]
            ELSE IF file.exists THEN [@ EXCEPT !.pc = "getmtime"]
            ELSE [@ EXCEPT !.pc = "sleep", !.wake = now + POLL_SLEEP]]
    /\ UNCHANGED <<now, file, WATCHDOG_AVAILABLE, observers, changes>>
    /\ lastEvent' = NoEvent
    /\ UNCHANGED sessionVars
    /\ UNCHANGED reloadVars
    /\ lastPoll' = IF pollers[p].running /\ ~file.exists
                     THEN Polled(p, "missing", <<>>)
                     ELSE NoPoll
    /\ lastHandled' = NoHandled

\* current_modified = os.path.getmtime(...) and the comparisons below it;
\* getmtime raises when the file has gone, request_reload may raise, and
\* the except clause sleeps.
PollGetmtime(p, emit) ==
    /\ pollers[p].pc = "getmtime"
    /\ lastHandled' = NoHandled
    /\ UNCHANGED <<now, file, WATCHDOG_AVAILABLE, observers, changes>>
    /\ lastEvent' = NoEvent
    /\ UNCHANGED sessionVars
    /\ LET w == pollers[p]
           current_modified == file.mtime
           slept == [w EXCEPT !.pc = "sleep", !.wake = now + POLL_SLEEP,
                              !.read = <<current_modified>>]
       IN
       IF ~file.exists
         THEN /\ pollers' = [pollers EXCEPT ![p] =
                     [w EXCEPT !.pc = AfterPollError,
                               !.wake = now + POLL_SLEEP]]
              /\ UNCHANGED reloadVars
              /\ lastPoll' = Polled(p, "error", <<>>)
       ELSE IF ~Newer(current_modified, w.last_modified)
         THEN /\ pollers' = [pollers EXCEPT ![p] = slept]
              /\ UNCHANGED reloadVars
              /\ lastPoll' = Polled(p, "same", <<current_modified>>)
       ELSE IF NotFirstCheck(w.last_modified) /\ reloader # None
         THEN IF emit = "raises"
                THEN /\ pollers' = [pollers EXCEPT ![p] =
                            [slept EXCEPT !.pc = AfterPollError]]
                     /\ UNCHANGED reloadVars
                     /\ lastPoll' = Polled(p, "error", <<current_modified>>)
                ELSE /\ nSubmitted < MaxRequests
                     /\ pollers' = [pollers EXCEPT ![p] =
                            [slept EXCEPT !.last_modified = current_modified]]
                     /\ request_reload("poller", "poller")
                     /\ lastPoll' = Polled(p, "request", <<current_modified>>)
         ELSE /\ pollers' = [pollers EXCEPT ![p] =
                     [slept EXCEPT !.last_modified = current_modified]]
              /\ UNCHANGED reloadVars
              /\ lastPoll' = Polled(p, IF NotFirstCheck(w.last_modified)
                                         THEN "noreloader" ELSE "baseline",
                                    <<current_modified>>)

\* time.sleep(1) returns after at least one second.
PollWake(p) ==
    /\ pollers[p].pc = "sleep"
    /\ now >= pollers[p].wake
    /\ pollers' = [pollers EXCEPT ![p].pc = "while", ![p].wake = 0]
    /\ UNCHANGED <<now, file, WATCHDOG_AVAILABLE, observers, changes>>
    /\ NothingNoted
    /\ UNCHANGED sessionVars
    /\ UNCHANGED reloadVars

\* --------------------------------------------------------- environment
Tick ==
    /\ now < Epoch + MaxTicks
    /\ now' = now + 1
    /\ UNCHANGED <<file, WATCHDOG_AVAILABLE, observers, pollers, changes>>
    /\ NothingNoted
    /\ UNCHANGED sessionVars
    /\ UNCHANGED reloadVars

\* Every running observer is told of an event of its directory.
RoomInInboxes ==
    \A o \in Observers : Running(o) => Len(observers[o].inbox) < MaxInbox
Notify(event) ==
    observers' = [o \in Observers |->
        IF Running(o)
          THEN [observers[o] EXCEPT !.inbox = Append(@, event)]
          ELSE observers[o]]

\* Writes are counted from the first start_debug_watcher on.
Changed ==
    IF session = 0 THEN changes
    ELSE [n |-> changes.n + 1, at |-> now,
          spaced |-> changes.spaced /\
              (changes.at = None \/ now - changes.at >= DEBOUNCE)]
Written == [exists |-> TRUE, mtime |-> now, content |-> Changed.n]

\* An editor writes the watched file in place.
WriteFile ==
    /\ changes.n < MaxChanges
    /\ RoomInInboxes
    /\ file' = Written
    /\ Notify(ModifiedEvent(Target, FALSE))
    /\ changes' = Changed
    /\ UNCHANGED <<now, WATCHDOG_AVAILABLE, pollers>>
    /\ NothingNoted
    /\ UNCHANGED sessionVars
    /\ UNCHANGED reloadVars

\* An editor writes a temporary file and renames it onto the watched file.
AtomicSave ==
    /\ changes.n < MaxChanges
    /\ RoomInInboxes
    /\ file' = Written
    /\ Notify(MovedEvent(Other, Target, FALSE))
    /\ changes' = Changed
    /\ UNCHANGED <<now, WATCHDOG_AVAILABLE, pollers>>
    /\ NothingNoted
    /\ UNCHANGED sessionVars
    /\ UNCHANGED reloadVars

\* The watched file is deleted.
DeleteFile ==
    /\ file.exists
    /\ file' = [file EXCEPT !.exists = FALSE]
    /\ UNCHANGED <<now, WATCHDOG_AVAILABLE, observers, pollers, changes>>
    /\ NothingNoted
    /\ UNCHANGED sessionVars
    /\ UNCHANGED reloadVars

\* Something else happens in the watched directory.
StrayEvent(event) ==
    /\ \E o \in Observers : Running(o)
    /\ Possible(event)
    /\ RoomInInboxes
    /\ Notify(event)
    /\ UNCHANGED <<now, file, WATCHDOG_AVAILABLE, pollers,
                   changes>>
    /\ NothingNoted
    /\ UNCHANGED sessionVars
    /\ UNCHANGED reloadVars

\* ------------------------------------------------ reload_geometry_safe
\* exec(code, namespace): the code of the file runs to its end, raises an
\* Exception, or raises a BaseException that is no Exception (SystemExit
\* from sys.exit(), KeyboardInterrupt).
ExecOutcomes == {"ok", "Exception", "BaseException"}

\* except Exception as e
Caught(exc) == exc = "Exception"

\* if App.ActiveDocument: recompute ... else: print
AfterExec(doc) == IF doc THEN "recompute" ELSE "return"

\* The call after App.ActiveDocument.recompute() has returned.
AfterRecomputeMessage == "message"
AfterRecompute == "updateGui"

\* Gui.updateGui() runs the event loop of the main thread until its queue
\* is empty (QCoreApplication::processEvents), so queued slot calls are
\* delivered while the caller is inside it.
ProcessesEvents(pc) == pc = "inUpdateGui"

HookOutcomes == {"ok", "Exception"}

\* The invocation of reload_geometry_safe that is running: the innermost.
InFlight == frames # <<>>
At(pc) == InFlight /\ Top(frames).pc = pc
Step(f) == frames' = [frames EXCEPT ![Len(frames)] = f]

\* How an invocation of reload_geometry_safe has ended.
Ended == {"missing", "nodocument", "success", "failed", "propagated"}

\* The event loop of the main thread delivers the next queued emission:
\* reload_geometry_safe begins and tests os.path.exists.
Deliver ==
    /\ queue # <<>>
    /\ IF frames = <<>> THEN TRUE ELSE ProcessesEvents(Top(frames).pc)
    /\ frames' = Append(frames, NewFrame(Head(queue), MainThread))
    /\ queue' = Tail(queue)
    /\ delivered' = Append(delivered, Head(queue).id)
    /\ UNCHANGED nSubmitted
    /\ UNCHANGED <<now, file, WATCHDOG_AVAILABLE, observers, pollers, changes>>
    /\ NothingNoted
    /\ UNCHANGED sessionVars

\* The frame after exec(code, namespace) ended with `result`,
\* App.ActiveDocument was `activeDocument` and recompute() ended with `hook`.
Executed(f, result, activeDocument, hook) ==
    LET g == [f EXCEPT !.exec = result] IN
    IF result = "ok"
      THEN IF AfterExec(activeDocument) = "recompute"
             THEN [g EXCEPT !.doc = activeDocument,
                            !.hist = IF hook = "ok"
                                       THEN <<"recompute", AfterRecompute>>
                                       ELSE <<"recompute">>,
                            !.returned = IF hook = "ok" THEN 1 ELSE 0,
                            !.err = IF hook = "ok" THEN 0 ELSE 1,
                            !.pc = IF hook = "ok" THEN "inUpdateGui"
                                   ELSE "failed"]
             ELSE [g EXCEPT !.doc = activeDocument, !.pc = "nodocument"]
      ELSE IF Caught(result)
        THEN [g EXCEPT !.err = 1, !.pc = "failed"]
        ELSE [g EXCEPT !.pc = "propagated"]

\* with open(...) as f: code = f.read() -- open raises if the file has
\* gone; then namespace, exec(code, namespace), the test of
\* App.ActiveDocument, recompute() and the call of Gui.updateGui(), or the
\* except clause with App.Console.PrintError.
ReloadRun(result, activeDocument, hook) ==
    /\ At("read")
    /\ Step(IF file.exists
              THEN Executed([Top(frames) EXCEPT !.code = file.content],
                            result, activeDocument, hook)
              ELSE [Top(frames) EXCEPT !.err = 1, !.pc = "failed"])
    /\ UNCHANGED <<queue, nSubmitted, delivered>>
    /\ UNCHANGED <<now, file, WATCHDOG_AVAILABLE, observers, pollers, changes>>
    /\ NothingNoted
    /\ UNCHANGED sessionVars

\* Gui.updateGui() returns, then App.Console.PrintMessage(...); or it
\* raises, then the except clause with App.Console.PrintError.
ReloadUpdateGuiReturns(hook) ==
    /\ At("inUpdateGui")
    /\ Step(IF hook = "ok"
              THEN [Top(frames) EXCEPT !.returned = @ + 1,
                                       !.hist = Append(@, "message"),
                                       !.pc = "success"]
              ELSE [Top(frames) EXCEPT !.err = @ + 1, !.pc = "failed"])
    /\ UNCHANGED <<queue, nSubmitted, delivered>>
    /\ UNCHANGED <<now, file, WATCHDOG_AVAILABLE, observers, pollers, changes>>
    /\ NothingNoted
    /\ UNCHANGED sessionVars

\* reload_geometry_safe returns to its caller, or the exception leaves it.
ReloadReturn ==
    /\ InFlight
    /\ Top(frames).pc \in Ended
    /\ frames' = Pop(frames)
    /\ UNCHANGED <<queue, nSubmitted, delivered>>
    /\ UNCHANGED <<now, file, WATCHDOG_AVAILABLE, observers, pollers, changes>>
    /\ NothingNoted
    /\ UNCHANGED sessionVars

\* ------------------------------------------------- start_debug_watcher
\* How the watchdog branch of start_debug_watcher ends.
InitOutcomes == {"ok", "construct_raises", "schedule_raises", "start_raises"}

\* Does the try block reach `return True`?
WatchdogStarts(init) == init = "ok"

\* Is `observer = Observer()` executed before the failure?
ObserverAssigned(init) == init # "construct_raises"

MainIdle == frames = <<>>

start_debug_watcher(init) ==
    /\ MainIdle
    /\ session' = session + 1
    /\ reloader' = session + 1
    /\ IF WATCHDOG_AVAILABLE /\ WatchdogStarts(init)
         THEN \* observer.start() succeeded: return True
              /\ observers' = Append(observers, NewObserver("running"))
              /\ observer' = Len(observers) + 1
              /\ UNCHANGED <<pollers, polling_thread>>
              /\ lastCall' = "start"
         ELSE \* fall back to polling
              /\ IF WATCHDOG_AVAILABLE /\ ObserverAssigned(init)
                   THEN /\ observers' = Append(observers, NewObserver("created"))
                        /\ observer' = Len(observers) + 1
                   ELSE UNCHANGED <<observers, observer>>
              /\ pollers' = Append(pollers, NewPoller)
              /\ polling_thread' = Len(pollers) + 1
              /\ lastCall' = "start"
    /\ UNCHANGED <<now, file, WATCHDOG_AVAILABLE, changes>>
    /\ NothingNoted
    /\ UNCHANGED reloadVars

\* -------------------------------------------------- stop_debug_watcher
\* observer.join() raises RuntimeError for a thread that was never started.
JoinRaises(state) == state = "created"

stop_debug_watcher ==
    /\ MainIdle
    /\ IF observer # None /\ JoinRaises(observers[observer].state)
         THEN \* observer.stop() returns, observer.join() raises
              /\ lastCall' = "stop raised"
              /\ UNCHANGED <<observer, observers, polling_thread, pollers>>
         ELSE /\ IF observer # None
                   THEN /\ observers' = [observers EXCEPT ![observer] =
                               NewObserver("stopped")]
                        /\ observer' = None
                   ELSE UNCHANGED <<observer, observers>>
              /\ IF polling_thread # None
                   THEN /\ pollers' = [pollers EXCEPT
                               ![polling_thread].running = FALSE]
                        /\ polling_thread' = None
                   ELSE UNCHANGED <<polling_thread, pollers>>
              /\ lastCall' = "stop"
    /\ UNCHANGED <<reloader, session>>
    /\ UNCHANGED <<now, file, WATCHDOG_AVAILABLE, changes>>
    /\ NothingNoted
    /\ UNCHANGED reloadVars

\* ------------------------------------------------------- specification
InitialMtimes == {-1, 0, 1}

Init ==
    /\ now = Epoch
    /\ \E m \in InitialMtimes :
          file = [exists |-> TRUE, mtime |-> m, content |-> 0]
    /\ WATCHDOG_AVAILABLE \in BOOLEAN
    /\ observer = None
    /\ polling_thread = None
    /\ reloader = None
    /\ observers = <<>>
    /\ pollers = <<>>
    /\ queue = <<>>
    /\ frames = <<>>
    /\ nSubmitted = 0
    /\ delivered = <<>>
    /\ lastCall = "none"
    /\ session = 0
    /\ lastEvent = NoEvent
    /\ lastPoll = NoPoll
    /\ lastHandled = NoHandled
    /\ changes = [n |-> 0, at |-> None, spaced |-> TRUE]

\* The steps of the program's threads, start_debug_watcher apart.
ProgramSteps ==
    \/ stop_debug_watcher
    \/ \E o \in Observers : HandleEvent(o)
    \/ \E p \in Pollers : PollWhile(p)
    \/ \E p \in Pollers, emit \in EmitOutcomes : PollGetmtime(p, emit)
    \/ \E p \in Pollers : PollWake(p)
    \/ Deliver
    \/ \E r \in ExecOutcomes, d \in BOOLEAN, h \in HookOutcomes :
          ReloadRun(r, d, h)
    \/ \E h \in HookOutcomes : ReloadUpdateGuiReturns(h)
    \/ ReloadReturn

\* Everything but start_debug_watcher.
Steps ==
    \/ ProgramSteps
    \/ Tick
    \/ WriteFile
    \/ AtomicSave
    \/ DeleteFile
    \/ \E e \in StrayEvents : StrayEvent(e)

\* One watch session: main() calls start_debug_watcher once.
FirstStart == \E init \in InitOutcomes : session = 0 /\ start_debug_watcher(init)
Next == FirstStart \/ Steps
Spec == Init /\ [][Next]_vars

\* Repeated sessions: start_debug_watcher is called again, whether or not
\* stop_debug_watcher was called in between.
AnyStart ==
    \E init \in InitOutcomes : session < MaxStarts /\ start_debug_watcher(init)
\* Here the only thing that happens around the program is an editor that
\* writes the watched file in place.
NextSessions == AnyStart \/ ProgramSteps \/ Tick \/ WriteFile
\* The file was last written some time before the process starts.
InitSessions == Init /\ file.mtime = 1
SpecSessions == InitSessions /\ [][NextSessions]_vars


\* ================================================================ claims
IsPrefix(a, b) == Len(a) <= Len(b) /\ a = SubSeq(b, 1, Len(a))
Frames == {frames[i] : i \in 1..Len(frames)}
RunningObservers == {o \in Observers : Running(o)}
RunningPollers == {p \in Pollers : pollers[p].running}

\* C1: the body of reload_geometry_safe runs on the main thread only; a
\* change seen on the watchdog thread or the polling thread is handed over
\* with request_reload and never runs the body on that thread.
C1_ReloadOnlyOnMainThread ==
    \A f \in Frames : f.thread = MainThread /\ f.by \in {"watchdog", "poller"}

\* C1 witness: a reload requested by the polling thread is running.
C1_Witness ==
    \E f \in Frames : f.by = "poller" /\ f.pc = "inUpdateGui"

\* C2 (as claimed): at most one invocation of reload_geometry_safe is in
\* progress at any time, also while one is inside recompute/updateGui.
C2_NoOverlap == Len(frames) <= 1

\* C3: the requests delivered so far, followed by the queued ones, are
\* exactly the requests submitted, each once and in the order of submission.
C3_DeliveredOnceInOrder ==
    delivered \o [i \in 1..Len(queue) |-> queue[i].id]
        = [i \in 1..nSubmitted |-> i]

\* C3 witness: two requests were submitted and both have been delivered.
C3_Witness == Len(delivered) = 2 /\ queue = <<>>

\* C4: an event for the watched file makes its handler request a reload
\* exactly if the handler requested none before or did so at least one
\* second earlier; an event less than a second after a request is dropped.
C4_DebounceGate ==
    /\ lastEvent.outcome \in {"none", "ignored", "debounced", "accepted"}
    /\ lastEvent.outcome = "accepted" =>
           lastEvent.gap \in {"first", "ge"} /\ lastEvent.reqs = 1
    /\ lastEvent.outcome = "debounced" =>
           lastEvent.gap = "lt" /\ lastEvent.reqs = 0

\* C4 witness: an event was dropped because a reload had been requested
\* less than a second before it.
C4_Witness ==
    /\ lastEvent.outcome = "debounced"
    /\ \E o \in Observers : observers[o].acceptedAt = now

\* The sources that are watching have seen the last write of the file.
Observed ==
    /\ RunningObservers \cup RunningPollers # {}
    /\ \A o \in RunningObservers : observers[o].inbox = <<>>
    /\ \A p \in RunningPollers :
          file.exists /\ pollers[p].last_modified = file.mtime

\* C5 (as claimed): when the writes of the watched file are at least one
\* second apart and the active source has seen the last of them, there was
\* exactly one reload request for each write.
C5_EachSpacedChangeReloadsOnce ==
    changes.spaced /\ Observed => nSubmitted = changes.n

\* C5 (amended): an event for the watched file that a handler handles at
\* least one second after the previous such event, or as its first, makes
\* the handler request exactly one reload.
C5_SpacedEventsEachAccepted ==
    lastEvent.sincePrev \in {"first", "ge"} =>
        lastEvent.outcome = "accepted" /\ lastEvent.reqs = 1

\* C5 witness: a handler requested a reload for an event that came at least
\* one second after the event before it.
C5_Witness ==
    lastEvent.outcome = "accepted" /\ lastEvent.sincePrev = "ge"

\* C6 (as claimed): whatever exec raises is caught in reload_geometry_safe
\* and reported once with PrintError; nothing propagates to the caller.
C6_FailuresAreCaught ==
    \A f \in Frames :
        /\ f.pc # "propagated"
        /\ f.pc \in Ended /\ f.exec \notin {"none", "ok"} =>
               f.pc = "failed" /\ f.err = 1

\* C7 (as claimed): a reload whose exec succeeded has called recompute,
\* updateGui and PrintMessage, in this order, when it ends; a reload whose
\* exec failed has called none of them.
C7_SuccessRunsHooksInOrder ==
    \A f \in Frames :
        f.pc \in Ended =>
            IF f.exec = "ok"
              THEN f.hist = <<"recompute", "updateGui", "message">>
              ELSE f.hist = <<>>

\* C7 (amended): recompute is called exactly when exec succeeded and there
\* is an active document; updateGui only after recompute returned,
\* PrintMessage only after updateGui returned; a reload with an active
\* document whose exec and hooks all succeed calls the three in this order.
C7_HooksInOrder ==
    \A f \in Frames :
        /\ IsPrefix(f.hist, <<"recompute", "updateGui", "message">>)
        /\ f.hist # <<>> <=> f.exec = "ok" /\ f.doc
        /\ Len(f.hist) >= 2 => f.returned >= 1
        /\ Len(f.hist) = 3 => f.returned = 2
        /\ f.pc = "success" <=> Len(f.hist) = 3
        /\ f.pc \in Ended /\ f.returned = 2 => Len(f.hist) = 3
        /\ f.pc \in Ended /\ f.exec = "ok" /\ f.doc /\ f.err = 0 =>
               Len(f.hist) = 3

\* C7 witness: a reload has called recompute, updateGui and PrintMessage.
C7_Witness ==
    \E f \in Frames : f.pc = "success" /\ f.returned = 2

\* C8 (as claimed): at most one observer or polling loop is running, and
\* every running one is the one the globals refer to, so that
\* stop_debug_watcher reaches it.
C8_AtMostOneSource ==
    /\ Cardinality(RunningObservers) + Cardinality(RunningPollers) <= 1
    /\ \A o \in RunningObservers : observer = o
    /\ \A p \in RunningPollers : polling_thread = p

\* C9 (as claimed): when start_debug_watcher has returned, exactly one
\* observer or polling loop is running.
C9_StartLeavesExactlyOneRunning ==
    lastCall = "start" =>
        Cardinality(RunningObservers) + Cardinality(RunningPollers) = 1

\* C10 (as claimed): once stop_debug_watcher has been called, the observer
\* is stopped and the polling loop has been told to leave its loop.
C10_StopStopsEverySource ==
    lastCall \in {"stop", "stop raised"} =>
        RunningObservers = {} /\ RunningPollers = {}

\* C11 (as claimed): when stop_debug_watcher has returned, the globals
\* observer, polling_thread and reloader are all None again.
C11_StopReleasesEverything ==
    lastCall = "stop" =>
        observer = None /\ polling_thread = None /\ reloader = None

\* C12 (as claimed): every call of stop_debug_watcher returns without
\* raising and leaves no observer and no polling loop running, and a call
\* that follows a returned stop_debug_watcher changes nothing.
C12_StopTotalAndIdempotent ==
    [][stop_debug_watcher =>
          /\ lastCall' = "stop"
          /\ \A o \in Observers : observers'[o].state # "running"
          /\ \A p \in Pollers : ~pollers'[p].running
          /\ lastCall = "stop" =>
                 UNCHANGED <<observer, polling_thread, reloader,
                             observers, pollers>>]_vars

\* C13 (as claimed): a reload that ends without having read the file,
\* because the file was missing at os.path.exists or went missing before
\* open, has executed nothing, called no hook and printed no error.
C13_MissingFileIsSilent ==
    \A f \in Frames :
        f.pc \in Ended /\ f.code = -1 =>
            f.exec = "none" /\ f.hist = <<>> /\ f.err = 0

\* C14: a poller's first observation of the file requests no reload,
\* whatever modification time it reads.
C14_FirstObservationSilent ==
    lastPoll.first => lastPoll.reqs = 0 /\ lastPoll.outcome \in {"same", "baseline"}

\* C14 witness: a poller has just made its first observation of a file with
\* a positive modification time, and took it as the baseline.
C14_Witness ==
    lastPoll.first /\ lastPoll.outcome = "baseline" /\ lastPoll.recorded

\* C15: a moved event whose destination is the watched path is treated as
\* a modification of the watched file is (a reload is requested and the
\* debounce time set unless a request was made less than a second before);
\* a moved event with another destination requests nothing.
C15_MoveOntoTargetReloads ==
    lastHandled.type = "moved" =>
        IF lastHandled.dest_path = Target
          THEN /\ lastEvent.outcome \in {"accepted", "debounced"}
               /\ lastEvent.gap \in {"first", "ge"} =>
                      lastHandled.reqs = 1 /\ lastHandled.stamped
               /\ lastEvent.gap = "lt" =>
                      lastHandled.reqs = 0 /\ ~lastHandled.stamped
          ELSE /\ lastEvent.outcome = "ignored"
               /\ lastHandled.reqs = 0 /\ ~lastHandled.stamped

\* C15 witness: a handler has just requested a reload for a file that was
\* moved onto the watched path.
C15_Witness ==
    /\ lastHandled.type = "moved" /\ lastHandled.dest_path = Target
    /\ ~lastHandled.is_directory
    /\ lastHandled.reqs = 1

\* C16 (as claimed): a poll cycle after the first observation that reads a
\* modification time above the one read at the previous observation
\* requests a reload (unless request_reload itself fails) and records the
\* time it read.
C16_EveryIncreaseRequests ==
    lastPoll.newer /\ lastPoll.outcome # "error" =>
        lastPoll.outcome = "request" /\ lastPoll.reqs = 1 /\ lastPoll.recorded

\* The path the handler compares with the watched path.
RelevantPath(h) == IF h.type = "moved" THEN h.dest_path ELSE h.src_path

\* C17 (as claimed): a handled event that is a directory event, or whose
\* path is not the watched path, requests no reload and leaves the
\* handler's last_modified as it was.
C17_ForeignEventsIgnored ==
    /\ lastHandled.type # "none"
    /\ lastHandled.is_directory \/ RelevantPath(lastHandled) # Target
    => lastHandled.reqs = 0 /\ ~lastHandled.stamped

\* C18: a polling loop has ended only if its running flag was cleared; a
\* cycle that finds the file missing, or in which getmtime or the request
\* raises, requests nothing, keeps the recorded modification time and goes
\* on to sleep for the next cycle.
C18_FailedCycleIsSkipped ==
    /\ \A p \in Pollers : pollers[p].pc = "ended" => ~pollers[p].running
    /\ lastPoll.outcome \in {"missing", "error"} =>
           /\ lastPoll.reqs = 0
           /\ lastPoll.kept
           /\ \A p \in Pollers :
                 pollers[p].running => pollers[p].pc \in {"while", "getmtime", "sleep"}

\* C18 witness: getmtime has just failed in a cycle of a running poller,
\* which now sleeps until its next cycle.
C18_Witness ==
    /\ lastPoll.outcome = "error"
    /\ ~file.exists
    /\ \E p \in Pollers : pollers[p].running /\ pollers[p].pc = "sleep"

\* C19 (as claimed): after stop_debug_watcher has returned, no thread of
\* the stopped session calls request_reload any more.
C19_NoRequestAfterStop ==
    [][lastCall = "stop" => nSubmitted' = nSubmitted]_vars

\* The sources have seen every change, nothing is queued, and the reload
\* for the last request has run to its end.
Quiescent ==
    /\ Observed
    /\ queue = <<>>
    /\ Len(frames) = 1
    /\ Top(frames).req = nSubmitted
    /\ Top(frames).pc \in Ended

\* C20 (as claimed): when the watched file was changed during the session
\* and everything has come to rest, the last reload has read the content
\* of the last write.
C20_LastReloadIsFresh ==
    lastCall = "start" /\ changes.n > 0 /\ file.exists /\ Quiescent =>
        Top(frames).code = file.content

====
